---- MODULE Spec2Model ----
(***************************************************************************)
(* MomentStitcher: the stitching worker ImageStitcherThread.run of         *)
(* gui_stitcher.py, modelled statement group by statement group, the color *)
(* normalization it applies to one image, the handlers of the window      *)
(* (ImageStitcherGUI, GroupWidget) that start, stop and disturb a job or   *)
(* regroup the images, and the command-line stitcher of image_stitcher.py. *)
(*                                                                         *)
(* An image file is a record [width, height, readable]; a decoded image is *)
(* a record [width, height, src] whose src stands for its pixels (the path *)
(* it was decoded from and its position in the group).  The three signals  *)
(* of the thread are modelled by the sequence of values emitted on each.   *)
(***************************************************************************)
EXTENDS Integers, Sequences, FiniteSets, TLC

\* ------------------------------------------------------------------------
\* Bounds of the model
\* ------------------------------------------------------------------------
MaxGroups == 3      \* groups in a job (jobs over the fixed disk)
MaxMembers == 2     \* members of one group (jobs over the fixed disk)
GeomMembers == 3    \* members of the single group of a geometry job
MaxDim == 3         \* largest width and height of a file of a geometry job
GuiGroups == 2      \* group widgets in the window
GuiMembers == 2     \* images in the list of one group widget
MaxEdits == 2       \* changes the user makes to the group widgets
MaxGroupSize == 3   \* largest value of the group size spin box (from 2)
PoolMax == 2        \* images in the pool of unassigned images

\* ------------------------------------------------------------------------
\* State
\* ------------------------------------------------------------------------
VARIABLES
    disk,              \* the image files: path -> file
    image_groups,      \* self.image_groups
    pc,                \* position of run
    total_groups, total_steps, current_step,
    group_num,         \* 0-based index of the group being processed
    idx,               \* 1-based position of the next member to load/rescale
    pil_images, min_width, resized_images, total_height,
    final_img,         \* the raster being composed, or NoImage
    progress_updated,  \* values emitted on progress_updated
    log_message,       \* lines emitted on log_message
    finished_signal,   \* values emitted on finished_signal
    saved,             \* files written to output_dir, in write order
    widgets,           \* the GroupWidgets of the window, in layout order
    start_btn,         \* start_btn.isEnabled()
    stop_btn,          \* stop_btn.isEnabled()
    running,           \* self.thread.isRunning()
    delivered,         \* emissions of finished_signal the window has handled
    finished_calls,    \* the calls of stitching_finished, in order
    killed_at,         \* where terminate() stopped run, "" if it did not
    handed,            \* the groups as they were when the thread was made
    edits,             \* the changes the user has made to the group widgets
    norm_img,          \* the image Image.open returned
    norm_out,          \* the image appended to pil_images, or NoPixel
    image_pool,        \* the paths of the items of self.image_pool
    group_size,        \* self.group_size_spinbox.value()
    regroup,           \* how the last auto_group_images returned, "" if none
    cli_done,          \* ImageStitcher.stitch_images has returned or raised
    cli_saved          \* files stitch_images wrote to its output_dir

workerVars == <<disk, image_groups, pc, total_groups, total_steps,
                current_step, group_num, idx, pil_images, min_width,
                resized_images, total_height, final_img, progress_updated,
                log_message, finished_signal, saved>>

guiVars == <<widgets, start_btn, stop_btn, running, delivered, finished_calls,
             killed_at, handed, edits>>

normVars == <<norm_img, norm_out>>

poolVars == <<image_pool, group_size, regroup>>

cliVars == <<cli_done, cli_saved>>

vars == <<workerVars, guiVars, normVars, poolVars, cliVars>>

\* ------------------------------------------------------------------------
\* Inputs: the files on disk and the list of groups handed to the thread
\* ------------------------------------------------------------------------
\* float('inf'), the initial min_width; every image width is at least 1
Inf == 0

Unreadable == [width |-> 0, height |-> 0, readable |-> FALSE]

File(w, h) == [width |-> w, height |-> h, readable |-> TRUE]

\* the disk of the multi-group jobs: one decodable file, one Image.open fails on
FixedDisk == [p \in {"a.jpg", "x.jpg"} |->
                IF p = "a.jpg" THEN File(2, 3) ELSE Unreadable]

GeomNames == <<"p1.png", "p2.png", "p3.png", "p4.png", "p5.png">>

GeomFiles == {File(w, h) : w \in 1..MaxDim, h \in 1..MaxDim} \cup {Unreadable}

SeqsOf(S, lo, hi) == UNION {[1..n -> S] : n \in lo..hi}

\* get_all_groups keeps only the groups that have at least one image
GroupsOver(S) == SeqsOf(S, 1, MaxMembers)

\* ------------------------------------------------------------------------
\* Pure helpers of run
\* ------------------------------------------------------------------------
\* a slip that keeps the widest member instead of the narrowest
PyMax(m, w) == IF m = Inf THEN w ELSE IF w > m THEN w ELSE m

\* min(min_width, img.width) with min_width possibly float('inf')
PyMin(m, w) == IF m = Inf THEN w ELSE IF w < m THEN w ELSE m

\* The pairs (current_step, total_steps), with total_steps <= 30 and
\* current_step <= 2 * total_steps, where the double current_step /
\* total_steps * 100 lies just below the exact integer 100 * current_step /
\* total_steps, so that int() yields one less than the exact quotient
\* (23 / 20 * 100 = 114.99999999999999, 29 / 25 * 100 = 115.99999999999999).
FloatShort == {<<23, 20>>, <<29, 25>>}

\* a slip that reports the share of the steps still to do
ProgressRemaining(c, t) == (100 * (t - c)) \div t

\* progress = int(current_step / total_steps * 100)
Progress(c, t) ==
    IF <<c, t>> \in FloatShort THEN ((100 * c) \div t) - 1 ELSE (100 * c) \div t

\* total_steps += len(group_images) + 3 for the groups of at least 2 members
RECURSIVE TotalSteps(_)
TotalSteps(groups) ==
    IF groups = <<>> THEN 0
    ELSE (IF Len(Head(groups)) >= 2 THEN Len(Head(groups)) + 3 ELSE 0)
         + TotalSteps(Tail(groups))

\* round(n / d) as Python rounds an exact quotient: to the nearest integer,
\* a tie to the even one
RoundHalfEven(n, d) ==
    LET q == n \div d
        r == n % d
    IN  IF 2 * r < d THEN q
        ELSE IF 2 * r > d THEN q + 1
        ELSE IF q % 2 = 0 THEN q ELSE q + 1

\* a slip that rounds the height instead of truncating it
NewHeightRounded(img, mw) == RoundHalfEven(img.height * mw, img.width)

\* scale_ratio = min_width / img.width; new_height = int(img.height *
\* scale_ratio).  For all 1 <= min_width <= width <= 12 and height <= 12 the
\* double product truncates to the exact floor of height * min_width / width.
NewHeight(img, mw) == (img.height * mw) \div img.width

\* a slip that lets the empty job through
EmptyJobNever(groups) == FALSE

\* if total_groups == 0: the job fails at once
EmptyJob(groups) == Len(groups) = 0

\* a slip that lets a group of a single image through
TooSmallBelowOne(group_images) == Len(group_images) < 1

\* if len(group_images) < 2: the group is skipped
TooSmall(group_images) == Len(group_images) < 2

\* a slip that always appends the part suffix
OutputNameAlwaysPart(tg, gnum) ==
    "stitched_long_image_part" \o ToString(gnum + 1) \o ".jpg"

\* a slip that numbers the parts by the artifacts written so far
OutputNameDense(tg, gnum) ==
    IF tg = 1 THEN "stitched_long_image.jpg"
    ELSE "stitched_long_image_part" \o ToString(Len(saved) + 1) \o ".jpg"

\* a slip that gives every artifact the fixed base name
OutputNameAlwaysBase(tg, gnum) == "stitched_long_image.jpg"

\* f"stitched_long_image_part{group_num + 1}.jpg" or the fixed base name
OutputName(tg, gnum) ==
    IF tg = 1 THEN "stitched_long_image.jpg"
    ELSE "stitched_long_image_part" \o ToString(gnum + 1) \o ".jpg"

\* a slip that advances the offset by the width of the pasted image
RECURSIVE PasteByWidth(_, _)
PasteByWidth(imgs, y) ==
    IF imgs = <<>> THEN <<>>
    ELSE <<[y |-> y, width |-> Head(imgs).width, height |-> Head(imgs).height,
            src |-> Head(imgs).src]>>
         \o PasteByWidth(Tail(imgs), y + Head(imgs).width)

\* final_img.paste(img, (0, y_offset)); y_offset += img.height, for each
\* resized image in list order: the rows of the raster, top to bottom
RECURSIVE Paste(_, _)
Paste(imgs, y) ==
    IF imgs = <<>> THEN <<>>
    ELSE <<[y |-> y, width |-> Head(imgs).width, height |-> Head(imgs).height,
            src |-> Head(imgs).src]>>
         \o Paste(Tail(imgs), y + Head(imgs).height)

\* ------------------------------------------------------------------------
\* Initial state
\* ------------------------------------------------------------------------
NoImage == [width |-> 0, height |-> 0, rows |-> <<>>]

\* a log line: its kind, the group it belongs to (0: none), the file or
\* artifact name it carries, and the count it carries
Line(k, g, n, c) == [kind |-> k, group |-> g, name |-> n, count |-> c]

InitLocals ==
    /\ pc = "start"
    /\ total_groups = 0 /\ total_steps = 0 /\ current_step = 0
    /\ group_num = 0 /\ idx = 1
    /\ pil_images = <<>> /\ min_width = Inf
    /\ resized_images = <<>> /\ total_height = 0
    /\ final_img = NoImage
    /\ progress_updated = <<>> /\ log_message = <<>>
    /\ finished_signal = <<>> /\ saved = <<>>

\* a job of up to MaxGroups groups over the fixed disk
InitJob ==
    /\ disk = FixedDisk
    /\ image_groups \in SeqsOf(GroupsOver(DOMAIN FixedDisk), 0, MaxGroups)

\* a job of one group of files of any small dimensions
InitGeom ==
    \E n \in 1..GeomMembers :
        /\ disk \in [{GeomNames[i] : i \in 1..n} -> GeomFiles]
        /\ image_groups = <<[i \in 1..n |-> GeomNames[i]]>>

\* no window and no normalization take part in a run of the worker alone
NoPixel == [mode |-> "none", v |-> 0, a |-> 0]

InitNoGui ==
    /\ widgets = <<>> /\ start_btn = FALSE /\ stop_btn = FALSE
    /\ running = FALSE /\ delivered = 0 /\ finished_calls = <<>>
    /\ killed_at = "" /\ handed = <<>> /\ edits = 0

InitNoNorm == norm_img = NoPixel /\ norm_out = NoPixel

\* the spin box at its minimum, nothing in the pool, no regrouping yet
InitNoPool == image_pool = <<>> /\ group_size = 2 /\ regroup = ""

InitNoCli == cli_done = FALSE /\ cli_saved = <<>>

Init ==
    /\ (InitJob \/ InitGeom) /\ InitLocals
    /\ InitNoGui /\ InitNoNorm /\ InitNoPool /\ InitNoCli

\* ------------------------------------------------------------------------
\* ImageStitcherThread.run
\* ------------------------------------------------------------------------
\* except Exception as e: self.finished_signal.emit(False, ...)
Raise(why) ==
    /\ finished_signal' = Append(finished_signal,
                                 [success |-> FALSE, message |-> why, count |-> 0])
    /\ pc' = "done"

\* current_step += 1; progress_updated.emit(int(current_step/total_steps*100))
Step ==
    /\ current_step' = current_step + 1
    /\ progress_updated' = Append(progress_updated,
                                  Progress(current_step + 1, total_steps))

\* lines 240-254: mkdir, the empty job, the count of steps
RunStart ==
    /\ pc = "start"
    /\ log_message' = Append(log_message, Line("begin", 0, "", 0))
    /\ \E mkdir_ok \in BOOLEAN :
        IF ~mkdir_ok
        THEN /\ Raise("mkdir")
             /\ UNCHANGED <<total_groups, total_steps>>
        ELSE /\ total_groups' = Len(image_groups)
             /\ IF EmptyJob(image_groups)
                THEN /\ finished_signal' = Append(finished_signal,
                            [success |-> FALSE, message |-> "no groups", count |-> 0])
                     /\ pc' = "done"
                     /\ UNCHANGED total_steps
                ELSE /\ total_steps' = TotalSteps(image_groups)
                     /\ pc' = "group"
                     /\ UNCHANGED finished_signal
    /\ UNCHANGED <<guiVars, normVars, poolVars, cliVars>>
    /\ UNCHANGED <<disk, image_groups, current_step, group_num, idx, pil_images,
                   min_width, resized_images, total_height, final_img,
                   progress_updated, saved>>

\* lines 256-265: the head of the loop over the groups
RunGroup ==
    /\ pc = "group"
    /\ group_num < total_groups
    /\ LET group_images == image_groups[group_num + 1] IN
        IF TooSmall(group_images)
        THEN /\ log_message' = Append(log_message,
                                      Line("skip", group_num + 1, "", 0))
             /\ group_num' = group_num + 1
             /\ UNCHANGED <<pc, idx, pil_images, min_width>>
        ELSE /\ log_message' = Append(log_message,
                    Line("group", group_num + 1, "", Len(group_images)))
             /\ pil_images' = <<>>
             /\ min_width' = Inf
             /\ idx' = 1
             /\ pc' = "load"
             /\ UNCHANGED group_num
    /\ UNCHANGED <<guiVars, normVars, poolVars, cliVars>>
    /\ UNCHANGED <<disk, image_groups, total_groups, total_steps, current_step,
                   resized_images, total_height, final_img, progress_updated,
                   finished_signal, saved>>

\* a slip that swallows the exception without a log line
LoadFailedSilently(img_path) ==
    /\ log_message' = Append(log_message,
                             Line("load", group_num + 1, img_path, 0))
    /\ UNCHANGED <<pil_images, min_width, current_step, progress_updated>>

\* lines 281-283: Image.open or the conversion raised; the member is logged
\* and dropped, and the step counter is not advanced
LoadFailed(img_path) ==
    /\ log_message' = log_message
            \o <<Line("load", group_num + 1, img_path, 0),
                 Line("error", group_num + 1, img_path, 0)>>
    /\ UNCHANGED <<pil_images, min_width, current_step, progress_updated>>

\* lines 267-287: one iteration of the loop that loads the members; with
\* total_steps = 0 the division of line 286 raises ZeroDivisionError
RunLoad ==
    /\ pc = "load"
    /\ idx <= Len(image_groups[group_num + 1])
    /\ LET img_path == image_groups[group_num + 1][idx]
           file == disk[img_path]
           img == [width |-> file.width, height |-> file.height,
                   src |-> <<img_path, idx>>]
       IN  IF file.readable
           THEN /\ log_message' = Append(log_message,
                        Line("load", group_num + 1, img_path, 0))
                /\ pil_images' = Append(pil_images, img)
                /\ min_width' = PyMin(min_width, img.width)
                /\ IF total_steps = 0
                   THEN /\ current_step' = current_step + 1
                        /\ Raise("division")
                        /\ UNCHANGED progress_updated
                   ELSE /\ Step
                        /\ UNCHANGED <<pc, finished_signal>>
           ELSE /\ LoadFailed(img_path)
                /\ UNCHANGED <<pc, finished_signal>>
    /\ idx' = idx + 1
    /\ UNCHANGED <<guiVars, normVars, poolVars, cliVars>>
    /\ UNCHANGED <<disk, image_groups, total_groups, total_steps, group_num,
                   resized_images, total_height, final_img, saved>>

\* lines 289-295: after the last member, skip the group or start rescaling
RunLoaded ==
    /\ pc = "load"
    /\ idx > Len(image_groups[group_num + 1])
    /\ IF pil_images = <<>>
       THEN /\ group_num' = group_num + 1
            /\ pc' = "group"
            /\ UNCHANGED <<log_message, resized_images, total_height, idx>>
       ELSE /\ log_message' = Append(log_message,
                                     Line("scaling", group_num + 1, "", 0))
            /\ resized_images' = <<>>
            /\ total_height' = 0
            /\ idx' = 1
            /\ pc' = "resize"
            /\ UNCHANGED group_num
    /\ UNCHANGED <<guiVars, normVars, poolVars, cliVars>>
    /\ UNCHANGED <<disk, image_groups, total_groups, total_steps, current_step,
                   pil_images, min_width, final_img, progress_updated,
                   finished_signal, saved>>

\* lines 297-307: one iteration of the loop that rescales the loaded images;
\* Image.resize raises ValueError for a size below 1
RunResize ==
    /\ pc = "resize"
    /\ idx <= Len(pil_images)
    /\ LET img == pil_images[idx]
           new_height == NewHeight(img, min_width)
           resized_img == [width |-> min_width, height |-> new_height,
                           src |-> img.src]
       IN  IF new_height < 1
           THEN /\ Raise("resize")
                /\ UNCHANGED <<resized_images, total_height, current_step,
                               progress_updated, idx>>
           ELSE /\ resized_images' = Append(resized_images, resized_img)
                /\ total_height' = total_height + new_height
                /\ Step
                /\ idx' = idx + 1
                /\ UNCHANGED <<pc, finished_signal>>
    /\ UNCHANGED <<guiVars, normVars, poolVars, cliVars>>
    /\ UNCHANGED <<disk, image_groups, total_groups, total_steps, group_num,
                   pil_images, min_width, final_img, log_message, saved>>

\* lines 309-320: the raster and the pastes
RunComposite ==
    /\ pc = "resize"
    /\ idx > Len(pil_images)
    /\ log_message' = Append(log_message, Line("stitching", group_num + 1, "", 0))
    /\ final_img' = [width |-> min_width, height |-> total_height,
                     rows |-> Paste(resized_images, 0)]
    /\ Step
    /\ pc' = "save"
    /\ UNCHANGED <<guiVars, normVars, poolVars, cliVars>>
    /\ UNCHANGED <<disk, image_groups, total_groups, total_steps, group_num, idx,
                   pil_images, min_width, resized_images, total_height,
                   finished_signal, saved>>

\* lines 322-336: the name, the write (which may fail), the last step
RunSave ==
    /\ pc = "save"
    /\ LET output_name == OutputName(total_groups, group_num) IN
        \E save_ok \in BOOLEAN :
            IF ~save_ok
            THEN /\ log_message' = Append(log_message,
                        Line("save", group_num + 1, output_name, 0))
                 /\ Raise("save")
                 /\ UNCHANGED <<saved, current_step, progress_updated, group_num>>
            ELSE /\ log_message' = log_message
                        \o <<Line("save", group_num + 1, output_name, 0),
                             Line("generated", group_num + 1, output_name,
                                  Len(resized_images))>>
                 /\ saved' = Append(saved, [name |-> output_name,
                                            group |-> group_num + 1,
                                            img |-> final_img,
                                            complete |-> TRUE])
                 /\ Step
                 /\ group_num' = group_num + 1
                 /\ pc' = "group"
                 /\ UNCHANGED finished_signal
    /\ UNCHANGED <<guiVars, normVars, poolVars, cliVars>>
    /\ UNCHANGED <<disk, image_groups, total_groups, total_steps, idx,
                   pil_images, min_width, resized_images, total_height,
                   final_img>>

\* line 338: the loop over the groups is exhausted
RunFinish ==
    /\ pc = "group"
    /\ group_num >= total_groups
    /\ finished_signal' = Append(finished_signal,
            [success |-> TRUE, message |-> "complete", count |-> total_groups])
    /\ pc' = "done"
    /\ UNCHANGED <<guiVars, normVars, poolVars, cliVars>>
    /\ UNCHANGED <<disk, image_groups, total_groups, total_steps, current_step,
                   group_num, idx, pil_images, min_width, resized_images,
                   total_height, final_img, progress_updated, log_message, saved>>

Next ==
    \/ RunStart
    \/ RunGroup
    \/ RunLoad
    \/ RunLoaded
    \/ RunResize
    \/ RunComposite
    \/ RunSave
    \/ RunFinish

Spec == Init /\ [][Next]_vars

\* ------------------------------------------------------------------------
\* The color normalization of one image (lines 270-278), on one pixel: a
\* sample v of its color channels and, for the modes that have one, its
\* alpha a.  An image without alpha has a = 255.
\* ------------------------------------------------------------------------
Levels == {0, 64, 128, 192, 255}

NormModes == {"RGB", "RGBA", "LA", "L", "P"}

NormInputs ==
    {[mode |-> m, v |-> v, a |-> a] :
        m \in {"RGBA", "LA"}, v \in Levels, a \in Levels}
    \cup {[mode |-> m, v |-> v, a |-> 255] :
        m \in NormModes \ {"RGBA", "LA"}, v \in Levels}

\* the division by 255 of a paste through a mask: (x + 128 + ((x + 128) >> 8)) >> 8
Div255(x) == (((x + 128) \div 256) + (x + 128)) \div 256

\* background.paste(img, mask=alpha) on one pixel of the background
PasteMasked(bg, v, a) == Div255(bg * (255 - a) + v * a)

\* background.paste(img, mask=None) on one pixel: the pixel is replaced
PasteUnmasked(bg, v, a) == v

\* lines 271-276
Normalize(img) ==
    IF img.mode \in {"RGBA", "LA"}
    THEN [mode |-> "RGB",
          v |-> IF img.mode = "RGBA"
                THEN PasteMasked(255, img.v, img.a)
                ELSE PasteUnmasked(255, img.v, img.a),
          a |-> 255]
    ELSE IF img.mode # "RGB"
    THEN [mode |-> "RGB", v |-> img.v, a |-> 255]
    ELSE img

\* no thread exists: the state of the worker before a job is started
InitIdle ==
    /\ disk = FixedDisk /\ image_groups = <<>>
    /\ pc = "idle"
    /\ total_groups = 0 /\ total_steps = 0 /\ current_step = 0
    /\ group_num = 0 /\ idx = 1
    /\ pil_images = <<>> /\ min_width = Inf
    /\ resized_images = <<>> /\ total_height = 0
    /\ final_img = NoImage
    /\ progress_updated = <<>> /\ log_message = <<>>
    /\ finished_signal = <<>> /\ saved = <<>>

InitNorm ==
    /\ InitIdle /\ InitNoGui /\ InitNoPool /\ InitNoCli
    /\ norm_img \in NormInputs
    /\ norm_out = NoPixel

NormalizeImage ==
    /\ norm_img # NoPixel
    /\ norm_out = NoPixel
    /\ norm_out' = Normalize(norm_img)
    /\ UNCHANGED <<workerVars, guiVars, norm_img, poolVars, cliVars>>

NextNorm == NormalizeImage

SpecNorm == InitNorm /\ [][NextNorm]_vars

\* ------------------------------------------------------------------------
\* The window: ImageStitcherGUI and its GroupWidgets, with one job.
\*
\* A widget is [image_list, images, alias]: the paths of its QListWidget,
\* the value of its list self.images, and the position in image_groups of
\* the group that is the same list object as self.images (0: none).  A
\* change made through self.images while alias # 0 is a change of the
\* thread's group.
\* ------------------------------------------------------------------------
Widget(l) == [image_list |-> l, images |-> l, alias |-> 0]

\* get_images: self.images becomes a new list of the paths of image_list
GetImages(wd) == Widget(wd.image_list)

\* update_total_images calls get_images of every widget
UpdateTotalImages(ws) == [i \in 1..Len(ws) |-> GetImages(ws[i])]

\* the positions of the widgets whose image_list is not empty
RECURSIVE NonEmptyFrom(_, _)
NonEmptyFrom(ws, i) ==
    IF i > Len(ws) THEN <<>>
    ELSE (IF ws[i].image_list # <<>> THEN <<i>> ELSE <<>>)
         \o NonEmptyFrom(ws, i + 1)

\* get_all_groups: the lists get_images returns for the non-empty widgets
GetAllGroups(ws) ==
    LET ne == NonEmptyFrom(ws, 1) IN [k \in 1..Len(ne) |-> ws[ne[k]].image_list]

\* the widgets after get_all_groups: every self.images is a new list, and
\* that of the k-th non-empty widget is the k-th group returned
AfterGetAllGroups(ws) ==
    LET ne == NonEmptyFrom(ws, 1) IN
    [i \in 1..Len(ws) |->
        [image_list |-> ws[i].image_list, images |-> ws[i].image_list,
         alias |-> IF ws[i].image_list = <<>> THEN 0
                   ELSE CHOOSE k \in 1..Len(ne) : ne[k] = i]]

\* the thread's groups after self.images of widget wd is changed in place
\* to the list l
Through(wd, l) ==
    IF wd.alias = 0 THEN image_groups
    ELSE [image_groups EXCEPT ![wd.alias] = l]

\* the paths in the order of their lower-cased names
NameOrder == <<"a.jpg", "x.jpg">>

RECURSIVE SortedFrom(_, _)
SortedFrom(l, n) ==
    IF n > Len(NameOrder) THEN <<>>
    ELSE SelectSeq(l, LAMBDA p : p = NameOrder[n]) \o SortedFrom(l, n + 1)

\* image_info.sort(key=lambda x: x['name'].lower())
SortByName(l) == SortedFrom(l, 1)

InitGui ==
    /\ InitIdle /\ InitNoNorm /\ InitNoPool /\ InitNoCli
    /\ widgets \in SeqsOf({Widget(l) : l \in SeqsOf(DOMAIN FixedDisk, 0, GuiMembers)},
                          1, GuiGroups)
    /\ start_btn = (GetAllGroups(widgets) # <<>>)
    /\ stop_btn = FALSE
    /\ running = FALSE /\ delivered = 0 /\ finished_calls = <<>>
    /\ killed_at = "" /\ handed = <<>> /\ edits = 0

\* stitching_finished (lines 1046-1060)
StitchingFinished(success, message) ==
    /\ finished_calls' = Append(finished_calls,
                                [success |-> success, message |-> message])
    /\ start_btn' = TRUE
    /\ stop_btn' = FALSE

\* start_stitching_from_groups (lines 942-963), for the first job
StartStitching ==
    /\ start_btn
    /\ pc = "idle"
    /\ widgets' = AfterGetAllGroups(widgets)
    /\ IF GetAllGroups(widgets) = <<>>
       THEN UNCHANGED <<workerVars, start_btn, stop_btn, running, handed>>
       ELSE /\ start_btn' = FALSE
            /\ stop_btn' = TRUE
            /\ image_groups' = GetAllGroups(widgets)
            /\ handed' = GetAllGroups(widgets)
            /\ pc' = "start"
            /\ running' = TRUE
            /\ UNCHANGED <<disk, total_groups, total_steps, current_step,
                           group_num, idx, pil_images, min_width,
                           resized_images, total_height, final_img,
                           progress_updated, log_message, finished_signal,
                           saved>>
    /\ UNCHANGED <<delivered, finished_calls, killed_at, edits, normVars, poolVars, cliVars>>

\* run has returned: the thread is no longer running
ThreadExit ==
    /\ pc = "done"
    /\ running
    /\ running' = FALSE
    /\ UNCHANGED <<workerVars, widgets, start_btn, stop_btn, delivered,
                   finished_calls, killed_at, handed, edits, normVars, poolVars, cliVars>>

\* the queued finished_signal reaches the window (connection of line 962)
DeliverFinished ==
    /\ delivered < Len(finished_signal)
    /\ delivered' = delivered + 1
    /\ StitchingFinished(finished_signal[delivered + 1].success,
                         finished_signal[delivered + 1].message)
    /\ UNCHANGED <<workerVars, widgets, running, killed_at, handed, edits,
                   normVars, poolVars, cliVars>>

\* stop_stitching (lines 1030-1035): terminate() ends the thread wherever it
\* is; inside final_img.save the file may be left partly written
StopStitching ==
    /\ stop_btn
    /\ IF running
       THEN /\ running' = FALSE
            /\ killed_at' = pc
            /\ pc' = IF pc = "done" THEN "done" ELSE "killed"
            /\ \E part \in BOOLEAN :
                saved' = IF pc = "save" /\ part
                         THEN Append(saved,
                                [name |-> OutputName(total_groups, group_num),
                                 group |-> group_num + 1,
                                 img |-> final_img,
                                 complete |-> FALSE])
                         ELSE saved
            /\ StitchingFinished(FALSE, "cancelled")
            /\ UNCHANGED <<disk, image_groups, total_groups, total_steps,
                           current_step, group_num, idx, pil_images, min_width,
                           resized_images, total_height, final_img,
                           progress_updated, log_message, finished_signal>>
       ELSE UNCHANGED <<workerVars, running, killed_at, finished_calls,
                        start_btn, stop_btn>>
    /\ UNCHANGED <<widgets, delivered, handed, edits, normVars, poolVars, cliVars>>

\* clear_group (lines 99-105)
ClearGroup(w) ==
    /\ edits < MaxEdits
    /\ edits' = edits + 1
    /\ image_groups' = Through(widgets[w], <<>>)
    /\ widgets' = UpdateTotalImages([widgets EXCEPT ![w].image_list = <<>>])
    /\ UNCHANGED <<disk, pc, total_groups, total_steps, current_step,
                   group_num, idx, pil_images, min_width, resized_images,
                   total_height, final_img, progress_updated, log_message,
                   finished_signal, saved>>
    /\ UNCHANGED <<start_btn, stop_btn, running, delivered, finished_calls,
                   killed_at, handed, normVars, poolVars, cliVars>>

\* dropEvent of a group widget with one existing path (lines 212-224)
DropOnGroup(w, p) ==
    /\ edits < MaxEdits
    /\ edits' = edits + 1
    /\ Len(widgets[w].image_list) < GuiMembers
    /\ image_groups' = Through(widgets[w], Append(widgets[w].images, p))
    /\ widgets' = UpdateTotalImages(
                    [widgets EXCEPT ![w].image_list = Append(@, p)])
    /\ UNCHANGED <<disk, pc, total_groups, total_steps, current_step,
                   group_num, idx, pil_images, min_width, resized_images,
                   total_height, final_img, progress_updated, log_message,
                   finished_signal, saved>>
    /\ UNCHANGED <<start_btn, stop_btn, running, delivered, finished_calls,
                   killed_at, handed, normVars, poolVars, cliVars>>

\* sort_images('name') (lines 118-206); the dialog is cancelled after j of
\* the sorted images are added again, or not at all (j = all of them)
SortImages(w, j) ==
    LET n == Len(widgets[w].image_list)
        sorted == SortByName(widgets[w].image_list)
        kept == SubSeq(sorted, 1, j)
    IN  /\ edits < MaxEdits
        /\ edits' = edits + 1
        /\ widgets[w].images # <<>>
        /\ n > 0
        /\ j \in 0..n
        /\ image_groups' = Through(widgets[w], kept)
        /\ widgets' =
            IF j = n
            THEN UpdateTotalImages([widgets EXCEPT ![w].image_list = sorted])
            ELSE [widgets EXCEPT ![w].image_list = kept, ![w].images = kept]
        /\ UNCHANGED <<disk, pc, total_groups, total_steps, current_step,
                       group_num, idx, pil_images, min_width, resized_images,
                       total_height, final_img, progress_updated, log_message,
                       finished_signal, saved>>
        /\ UNCHANGED <<start_btn, stop_btn, running, delivered, finished_calls,
                       killed_at, handed, normVars, poolVars, cliVars>>

\* ------------------------------------------------------------------------
\* Regrouping: auto_group_images and the handlers that lead to it
\* ------------------------------------------------------------------------
RECURSIVE Flatten(_)
Flatten(groups) ==
    IF groups = <<>> THEN <<>> ELSE Head(groups) \o Flatten(Tail(groups))

\* a slip that rounds the number of groups down
TotalGroupsFloor(n, k) == n \div k

\* total_groups = (total_images + group_size - 1) // group_size
TotalGroupsOf(n, k) == (n + k - 1) \div k

\* all_images[start_idx:end_idx] of the group at 0-based position i, with
\* start_idx = i * group_size, end_idx = min(start_idx + group_size, n)
GroupSlice(all_images, k, i) ==
    SubSeq(all_images, i * k + 1,
           IF i * k + k < Len(all_images) THEN i * k + k ELSE Len(all_images))

\* check_start_button (the definition of lines 1021-1024, which replaces
\* that of lines 653-656): the value it gives start_btn
CheckStartButton(ws) == GetAllGroups(ws) # <<>>

\* the paths of the pool followed by those of the groups, in layout order
AllImages ==
    image_pool \o Flatten([i \in 1..Len(widgets) |-> widgets[i].image_list])

\* the body of auto_group_images (lines 805-907) with group size k; stop is
\* the number of loop iterations done before the dialog is cancelled, over
\* the loop that refills the pool and then the loop that makes the groups
AutoGroup(k) ==
    LET all_images == AllImages
        total_images == Len(all_images)
        tg == TotalGroupsOf(total_images, k)
        made(m) == [i \in 1..m |-> Widget(GroupSlice(all_images, k, i - 1))]
        last == IF tg * k < total_images THEN tg * k ELSE total_images
        grouped == {all_images[j] : j \in 1..last}
    IN  \E stop \in 0..(total_images + tg) :
            IF total_images = 0
            THEN /\ widgets' = <<>>
                 /\ image_pool' = <<>>
                 /\ start_btn' = FALSE
                 /\ regroup' = "empty"
            ELSE IF stop < total_images
            THEN /\ widgets' = <<>>
                 /\ image_pool' = SubSeq(all_images, 1, stop)
                 /\ start_btn' = FALSE
                 /\ regroup' = "cancelled"
            ELSE IF stop < total_images + tg
            THEN /\ widgets' = made(stop - total_images)
                 /\ image_pool' = all_images
                 /\ start_btn' = FALSE
                 /\ regroup' = "cancelled"
            ELSE /\ widgets' = made(tg)
                 /\ image_pool' = SelectSeq(all_images, LAMBDA p : p \notin grouped)
                 /\ start_btn' = CheckStartButton(made(tg))
                 /\ regroup' = "complete"

\* the auto-group button (line 438)
AutoGroupImages ==
    /\ edits < MaxEdits
    /\ edits' = edits + 1
    /\ AutoGroup(group_size)
    /\ UNCHANGED <<workerVars, stop_btn, running, delivered, finished_calls,
                   killed_at, handed, group_size, normVars, cliVars>>

\* on_group_size_changed (lines 709-711): the spin box has a new value
OnGroupSizeChanged(new_value) ==
    /\ edits < MaxEdits
    /\ edits' = edits + 1
    /\ new_value # group_size
    /\ group_size' = new_value
    /\ AutoGroup(new_value)
    /\ UNCHANGED <<workerVars, stop_btn, running, delivered, finished_calls,
                   killed_at, handed, normVars, cliVars>>

\* handle_dropped_files with one existing file (lines 991-1019)
HandleDroppedFiles(file_path) ==
    /\ edits < MaxEdits
    /\ edits' = edits + 1
    /\ Len(image_pool) < PoolMax
    /\ image_pool' = Append(image_pool, file_path)
    /\ widgets' = UpdateTotalImages(widgets)
    /\ start_btn' = CheckStartButton(widgets)
    /\ UNCHANGED <<workerVars, stop_btn, running, delivered, finished_calls,
                   killed_at, handed, group_size, regroup, normVars, cliVars>>

\* the window before any job, with images in the pool and in the groups
\* and the spin box at its minimum, when the user has one change left to make
InitRegroup ==
    /\ InitIdle /\ InitNoNorm /\ InitNoCli
    /\ widgets \in SeqsOf({Widget(l) : l \in SeqsOf(DOMAIN FixedDisk, 0, GuiMembers)},
                          0, GuiGroups - 1)
    /\ image_pool \in SeqsOf(DOMAIN FixedDisk, 0, PoolMax)
    /\ group_size = 2
    /\ regroup = ""
    /\ start_btn = CheckStartButton(widgets)
    /\ stop_btn = FALSE
    /\ running = FALSE /\ delivered = 0 /\ finished_calls = <<>>
    /\ killed_at = "" /\ handed = <<>>
    /\ edits = MaxEdits - 1

NextRegroup ==
    \/ AutoGroupImages
    \/ \E v \in 2..MaxGroupSize : OnGroupSizeChanged(v)
    \/ \E p \in DOMAIN disk : HandleDroppedFiles(p)

SpecRegroup == InitRegroup /\ [][NextRegroup]_vars

\* ------------------------------------------------------------------------
\* The command-line stitcher: ImageStitcher.stitch_images (image_stitcher.py)
\*
\* all_images is the list of the files of the input directory; an
\* occurrence of a path in it stands for a file of its own with the content
\* of that path.
\* ------------------------------------------------------------------------
\* lines 61-77: the files of the group that Image.open and the conversion
\* accept, in order
TempImages(group_images) == SelectSeq(group_images, LAMBDA p : disk[p].readable)

\* min_width after the loop of lines 61-77
RECURSIVE CliMinWidth(_, _)
CliMinWidth(temp_images, m) ==
    IF temp_images = <<>> THEN m
    ELSE CliMinWidth(Tail(temp_images), PyMin(m, disk[Head(temp_images)].width))

\* total_height after the loop of lines 85-94
RECURSIVE CliTotalHeight(_, _)
CliTotalHeight(temp_images, mw) ==
    IF temp_images = <<>> THEN 0
    ELSE NewHeight(disk[Head(temp_images)], mw)
         + CliTotalHeight(Tail(temp_images), mw)

\* lines 46-115 from group group_num on: the files written, in order.  A
\* group none of whose files loads is passed over (line 79); img.resize
\* with a height below 1 raises and ends stitch_images (line 92).
RECURSIVE CliGroups(_, _, _, _)
CliGroups(all_images, k, tg, gnum) ==
    IF gnum >= tg THEN <<>>
    ELSE LET temp_images == TempImages(GroupSlice(all_images, k, gnum))
             mw == CliMinWidth(temp_images, Inf)
         IN  IF temp_images = <<>>
             THEN CliGroups(all_images, k, tg, gnum + 1)
             ELSE IF \E i \in 1..Len(temp_images) :
                        NewHeight(disk[temp_images[i]], mw) < 1
             THEN <<>>
             ELSE <<[name |-> OutputName(tg, gnum),
                     width |-> mw,
                     height |-> CliTotalHeight(temp_images, mw)]>>
                  \o CliGroups(all_images, k, tg, gnum + 1)

\* stitch_images(images_per_group) over a directory whose groups are the
\* groups of the worker's job, run once the worker has ended
StitchImages(images_per_group) ==
    LET all_images == Flatten(image_groups)
        tg == TotalGroupsOf(Len(all_images), images_per_group)
    IN  /\ pc = "done"
        /\ ~cli_done
        /\ image_groups = [i \in 1..tg |->
                            GroupSlice(all_images, images_per_group, i - 1)]
        /\ cli_saved' = IF all_images = <<>> THEN <<>>
                        ELSE CliGroups(all_images, images_per_group, tg, 0)
        /\ cli_done' = TRUE
        /\ UNCHANGED <<workerVars, guiVars, normVars, poolVars>>

\* the worker's run followed by the command-line stitcher on the same groups
NextCli ==
    \/ RunStart
    \/ RunGroup
    \/ RunLoad
    \/ RunLoaded
    \/ RunResize
    \/ RunComposite
    \/ RunSave
    \/ RunFinish
    \/ \E k \in 1..MaxGroupSize : StitchImages(k)

SpecCli == Init /\ [][NextCli]_vars

NextGui ==
    \/ StartStitching
    \/ RunStart
    \/ RunGroup
    \/ RunLoad
    \/ RunLoaded
    \/ RunResize
    \/ RunComposite
    \/ RunSave
    \/ RunFinish
    \/ ThreadExit
    \/ DeliverFinished
    \/ StopStitching
    \/ \E w \in 1..Len(widgets) : ClearGroup(w)
    \/ \E w \in 1..Len(widgets) : \E p \in DOMAIN disk : DropOnGroup(w, p)
    \/ \E w \in 1..Len(widgets) : \E j \in 0..Len(widgets[w].image_list) : SortImages(w, j)
    \/ AutoGroupImages
    \/ \E v \in 2..MaxGroupSize : OnGroupSizeChanged(v)
    \/ \E p \in DOMAIN disk : HandleDroppedFiles(p)

SpecGui == InitGui /\ [][NextGui]_vars

\* ------------------------------------------------------------------------
\* Properties
\* ------------------------------------------------------------------------
Succeeded ==
    pc = "done" /\ Len(finished_signal) = 1 /\ finished_signal[1].success

Failed ==
    pc = "done" /\ Len(finished_signal) = 1 /\ ~finished_signal[1].success

\* the positions of a group whose file Image.open decodes
Loadable(g) == {i \in 1..Len(image_groups[g]) : disk[image_groups[g][i]].readable}

\* C1: a job that ends with a success result after writing at least one
\* artifact has emitted 100 as its last progress value.
C1_LastProgressIs100 ==
    (Succeeded /\ saved # <<>>)
        => (progress_updated # <<>>
            /\ progress_updated[Len(progress_updated)] = 100)

\* C2: every value emitted on progress_updated lies between 0 and 100.
C2_ProgressWithin0And100 ==
    \A i \in 1..Len(progress_updated) :
        progress_updated[i] >= 0 /\ progress_updated[i] <= 100

\* C3: the values emitted on progress_updated within one run never decrease,
\* whatever the groups, the load failures and the skipped groups.
C3_ProgressNonDecreasing ==
    \A i \in 1..Len(progress_updated) :
        \A j \in i..Len(progress_updated) :
            progress_updated[i] <= progress_updated[j]

\* a finished run with a skipped group, a failed load and several emissions
C3_Witness ==
    /\ Succeeded
    /\ Len(progress_updated) >= 4
    /\ \E i \in 1..Len(log_message) : log_message[i].kind = "skip"
    /\ \E i \in 1..Len(log_message) : log_message[i].kind = "error"

\* the widths of the files of group g that load
LoadedWidths(g) == {disk[image_groups[g][i]].width : i \in Loadable(g)}

\* C4: the width of every written artifact is the minimum width over the
\* members of its group that loaded, and every rescaled member pasted into it
\* (one per loaded member) has exactly that width.
C4_ArtifactWidthIsMinWidth ==
    \A k \in 1..Len(saved) :
        LET art == saved[k] IN
        /\ art.img.width \in LoadedWidths(art.group)
        /\ \A w \in LoadedWidths(art.group) : art.img.width <= w
        /\ Len(art.img.rows) = Cardinality(Loadable(art.group))
        /\ \A r \in 1..Len(art.img.rows) :
            art.img.rows[r].width = art.img.width

\* an artifact of a group whose first loaded member is not its narrowest
C4_Witness ==
    \E k \in 1..Len(saved) :
        LET g == saved[k].group IN
        /\ Cardinality(LoadedWidths(g)) >= 2
        /\ \E i \in Loadable(g) : \E j \in Loadable(g) :
            i < j /\ disk[image_groups[g][j]].width < disk[image_groups[g][i]].width

\* the loaded positions of group g in increasing order
RECURSIVE LoadedFrom(_, _)
LoadedFrom(g, i) ==
    IF i > Len(image_groups[g]) THEN <<>>
    ELSE (IF i \in Loadable(g) THEN <<i>> ELSE <<>>) \o LoadedFrom(g, i + 1)

RECURSIVE SumHeights(_, _)
SumHeights(rows, n) ==
    IF n = 0 THEN 0 ELSE rows[n].height + SumHeights(rows, n - 1)

\* C5: the rows of every written artifact are the loaded members of its
\* group in input order, row i starts at the sum of the heights of the rows
\* before it (no gap, no overlap), and the artifact height is the sum of
\* the heights of all its rows.
C5_RowsTileInMemberOrder ==
    \A k \in 1..Len(saved) :
        LET art == saved[k]
            rows == art.img.rows
            members == LoadedFrom(art.group, 1)
        IN  /\ Len(rows) = Len(members)
            /\ \A r \in 1..Len(rows) :
                /\ rows[r].src = <<image_groups[art.group][members[r]], members[r]>>
                /\ rows[r].y = SumHeights(rows, r - 1)
            /\ art.img.height = SumHeights(rows, Len(rows))

\* an artifact of several rows, the first two of different heights, the first
\* not as high as wide, from a group in which a member failed to load
C5_Witness ==
    \E k \in 1..Len(saved) :
        LET rows == saved[k].img.rows IN
        /\ Len(rows) >= 2
        /\ rows[1].height # rows[2].height
        /\ rows[1].height # rows[1].width
        /\ Len(rows) < Len(image_groups[saved[k].group])

\* the lines of the log that belong to group g
LinesOf(g) == SelectSeq(log_message, LAMBDA l : l.group = g)

\* C6: the step of run at a group of fewer than 2 members writes nothing,
\* emits exactly one log line, which says the group is skipped, emits no
\* progress value and no result, and goes on to the next group.
C6_SmallGroupSkipped ==
    [][(pc = "group" /\ group_num < total_groups
        /\ Len(image_groups[group_num + 1]) < 2)
       => /\ saved' = saved
          /\ progress_updated' = progress_updated
          /\ finished_signal' = finished_signal
          /\ log_message' = Append(log_message,
                                   Line("skip", group_num + 1, "", 0))
          /\ pc' = "group"
          /\ group_num' = group_num + 1]_vars

\* a run that skipped a group of one image and wrote an artifact for a later
\* group, with that one skip line as the whole log of the skipped group
C6_Witness ==
    \E g \in 1..Len(image_groups) :
        /\ Len(image_groups[g]) < 2
        /\ LinesOf(g) = <<Line("skip", g, "", 0)>>
        /\ \E k \in 1..Len(saved) : saved[k].group > g
        /\ \A k \in 1..Len(saved) : saved[k].group # g

\* the groups whose processing is over
Processed(g) == g <= group_num /\ g <= Len(image_groups)

\* C7: a group of at least 2 members of which fewer than 2 load produces no
\* artifact and is reported by a line saying the group is skipped.
C7_FewSurvivorsSkipped ==
    \A g \in 1..Len(image_groups) :
        (Processed(g) /\ Len(image_groups[g]) >= 2
         /\ Cardinality(Loadable(g)) < 2)
        => /\ \A k \in 1..Len(saved) : saved[k].group # g
           /\ \E i \in 1..Len(log_message) :
                log_message[i].kind = "skip" /\ log_message[i].group = g

\* C8: a group of n >= 2 members that all fail to load produces no artifact
\* and exactly n error lines, one per member in member order, each naming its
\* member; a job in which no member of any group loads ends, once its output
\* directory exists, with a success result.
C8_AllFailGroup ==
    /\ \A g \in 1..Len(image_groups) :
        (Processed(g) /\ Len(image_groups[g]) >= 2 /\ Loadable(g) = {})
        => /\ \A k \in 1..Len(saved) : saved[k].group # g
           /\ SelectSeq(LinesOf(g), LAMBDA l : l.kind = "error")
                = [i \in 1..Len(image_groups[g]) |->
                        Line("error", g, image_groups[g][i], 0)]
    /\ (pc = "done" /\ total_groups > 0
        /\ \A g \in 1..Len(image_groups) : Loadable(g) = {})
        => Succeeded

\* a finished job of several groups, one of them of 2 members, which all fail
C8_Witness ==
    /\ Succeeded
    /\ \A g \in 1..Len(image_groups) : Loadable(g) = {}
    /\ Len(image_groups) >= 2
    /\ \E g \in 1..Len(image_groups) : Len(image_groups[g]) >= 2

BaseName == "stitched_long_image.jpg"

PartName(n) == "stitched_long_image_part" \o ToString(n) \o ".jpg"

\* C9: when exactly one of the supplied groups produces an artifact, however
\* many groups were supplied, the artifact has the fixed base name.
C9_SoleArtifactHasBaseName ==
    (Succeeded /\ Len(saved) = 1) => saved[1].name = BaseName

\* C9 as amended: when exactly one group was supplied and it produces an
\* artifact, the artifact has the fixed base name.
C9_SingleGroupJobHasBaseName ==
    Len(image_groups) = 1 => \A k \in 1..Len(saved) : saved[k].name = BaseName

\* a finished job of one group whose artifact is written
C9_Witness ==
    Succeeded /\ Len(image_groups) = 1 /\ Len(saved) = 1

\* C10: once more than one artifact is written, the artifact of the group at
\* position N among all supplied groups is named with the suffix partN, and
\* the artifacts pasted from the members of group N are those named partN.
C10_PartSuffixIsGroupPosition ==
    Len(saved) > 1 =>
        \A k \in 1..Len(saved) :
            LET art == saved[k] IN
            /\ art.name = PartName(art.group)
            /\ art.group \in 1..Len(image_groups)
            /\ \A r \in 1..Len(art.img.rows) :
                /\ art.img.rows[r].src[2] \in 1..Len(image_groups[art.group])
                /\ art.img.rows[r].src[1]
                    = image_groups[art.group][art.img.rows[r].src[2]]

\* two artifacts written after a skipped first group: part2 and part3
C10_Witness ==
    /\ Len(image_groups) = 3
    /\ Len(image_groups[1]) < 2
    /\ Len(saved) = 2
    /\ saved[1].name = "stitched_long_image_part2.jpg"
    /\ saved[2].name = "stitched_long_image_part3.jpg"

\* the result is a failure for one of the conditions of the whole job
JobLevelFailure ==
    Failed /\ finished_signal[1].message \in {"no groups", "mkdir", "save"}

\* C11: run reports a failure only for a condition of the whole job: no
\* groups, the output directory cannot be made, an artifact cannot be
\* written; never for one image or one group.
C11_FailureOnlyJobLevel ==
    Failed => JobLevelFailure

\* C12: the artifacts are written in increasing group order, at most one per
\* group, and unless the job stops for a condition of the whole job every
\* group of which at least 2 members load has its artifact.
C12_OneArtifactPerValidGroup ==
    /\ \A k \in 1..Len(saved) : \A l \in 1..Len(saved) :
        k < l => saved[k].group < saved[l].group
    /\ (pc = "done" /\ ~JobLevelFailure)
        => \A g \in 1..Len(image_groups) :
            Cardinality(Loadable(g)) >= 2
                => \E k \in 1..Len(saved) : saved[k].group = g

\* C16: a job of zero groups writes nothing, emits no progress value, and
\* ends with a failure result that carries a message.
C16_EmptyJobFails ==
    Len(image_groups) = 0
        => /\ saved = <<>>
           /\ progress_updated = <<>>
           /\ pc \in {"start", "done"}
           /\ pc = "done"
                => /\ Failed
                   /\ finished_signal[1].message \in {"no groups", "mkdir"}

\* a job of zero groups that ended on the test of line 244
C16_Witness ==
    /\ Len(image_groups) = 0
    /\ Failed
    /\ finished_signal[1].message = "no groups"

\* C17: the count in the message of a success result is the number of
\* artifacts written during the run.
C17_SummaryCountsArtifacts ==
    Succeeded => finished_signal[1].count = Len(saved)

C19_AlphaCompositedOverWhite ==
    norm_out # NoPixel
        => norm_out = [mode |-> "RGB",
                       v |-> IF norm_img.mode \in {"RGBA", "LA"}
                             THEN PasteMasked(255, norm_img.v, norm_img.a)
                             ELSE norm_img.v,
                       a |-> 255]

\* C13: a stop request ends the run only at a boundary between groups or
\* between the images of a group, never between compositing and writing or
\* inside the write, and no written file is ever partial.
C13_CancelOnlyAtBoundary ==
    /\ killed_at \in {"", "start", "group", "load", "resize", "done"}
    /\ \A k \in 1..Len(saved) : saved[k].complete

\* C14: when the run is cancelled after group_num groups have completed,
\* the window gets exactly the cancelled result and every file on disk
\* belongs to one of the completed groups.
C14_CancelKeepsCompletedOnly ==
    (pc = "killed") =>
        /\ finished_calls = <<[success |-> FALSE, message |-> "cancelled"]>>
        /\ \A k \in 1..Len(saved) : saved[k].group <= group_num

\* C15: stitching_finished is called at most once per job, and exactly once
\* when the thread has ended and every emitted signal has been handled.
C15_FinishedExactlyOnce ==
    /\ Len(finished_calls) <= 1
    /\ (pc \in {"done", "killed"} /\ ~running
            /\ delivered = Len(finished_signal))
        => Len(finished_calls) = 1

\* C20: while the thread runs, its groups are the groups as they were when
\* it was started, whatever the user does to the group widgets.
C20_GroupsAreSnapshot == running => image_groups = handed

\* C22: the target width is at most the width of every loaded member, and
\* every rescaled member is at most as wide and as high as its file: no
\* member is upscaled.
C22_NoUpscaling ==
    /\ pc \in {"resize", "save"} =>
        \A i \in 1..Len(pil_images) : min_width <= pil_images[i].width
    /\ pc \in {"resize", "save"} =>
        \A i \in 1..Len(resized_images) :
            /\ resized_images[i].width <= disk[resized_images[i].src[1]].width
            /\ resized_images[i].height <= disk[resized_images[i].src[1]].height

\* a wider member has been narrowed next to one that kept its size
C22_Witness ==
    /\ pc = "save"
    /\ \E i, j \in 1..Len(resized_images) :
        /\ resized_images[i].width < disk[resized_images[i].src[1]].width
        /\ resized_images[i].height < disk[resized_images[i].src[1]].height
        /\ resized_images[j].width = disk[resized_images[j].src[1]].width

\* C24: the files a run writes have pairwise distinct names, so no artifact
\* of the run overwrites another one of the same run.
C24_NamesDistinct ==
    \A i, j \in 1..Len(saved) : i # j => saved[i].name # saved[j].name

\* a run that has written three artifacts
C24_Witness == Succeeded /\ Len(saved) = 3

\* C26: every loaded member of a processed group gets a rescaled height of
\* at least 1 pixel.
C26_HeightAtLeastOne ==
    pc = "resize" =>
        \A i \in 1..Len(pil_images) : NewHeight(pil_images[i], min_width) >= 1

\* the number of times path p occurs in the sequence l
Count(p, l) == Len(SelectSeq(l, LAMBDA q : q = p))

\* C21: a regrouping of n >= 1 images with group size k that runs to its
\* end makes ceil(n / k) groups whose concatenation is the images in their
\* order; every group but the last has k members, the last from 1 to k.
C21_ChunkingIsExact ==
    [][(AutoGroup(group_size') /\ regroup' = "complete") =>
        LET all_images == AllImages
            n == Len(all_images)
            k == group_size'
            g == [i \in 1..Len(widgets') |-> widgets'[i].image_list]
        IN  /\ n >= 1
            /\ Len(g) * k >= n
            /\ (Len(g) - 1) * k < n
            /\ Flatten(g) = all_images
            /\ \A i \in 1..(Len(g) - 1) : Len(g[i]) = k
            /\ Len(g[Len(g)]) \in 1..k]_vars

\* a finished regrouping with a full first group and a shorter last group
C21_Witness ==
    /\ regroup = "complete"
    /\ Len(widgets) >= 2
    /\ Len(widgets[1].image_list) = group_size
    /\ Len(widgets[Len(widgets)].image_list) < group_size
    /\ image_pool = <<>>

\* the worker has been started and stitching_finished has not run yet
JobRunning == pc # "idle" /\ finished_calls = <<>>

\* C23: while a job is running the start button is disabled, whatever the
\* user does in the window.
C23_StartDisabledWhileRunning == JobRunning => ~start_btn

\* C25: a call of auto_group_images, finished or cancelled, leaves every
\* image that was in the pool or in a group exactly as often in the pool
\* and the groups together as before the call.
C25_RegroupKeepsImages ==
    [][AutoGroup(group_size') =>
        \A p \in DOMAIN disk : Count(p, AllImages') = Count(p, AllImages)]_vars

\* the name, width and height of the files the worker wrote
WorkerArtifacts ==
    {[name |-> saved[k].name, width |-> saved[k].img.width,
      height |-> saved[k].img.height] : k \in 1..Len(saved)}

\* C27: on the same groups and load outcomes the command-line stitcher
\* writes the files the worker writes: same names, widths and heights.
C27_CliWritesWhatWorkerWrites ==
    (Succeeded /\ cli_done) =>
        {cli_saved[k] : k \in 1..Len(cli_saved)} = WorkerArtifacts

====
